---- MODULE Spec2Model ----
(***************************************************************************)
(* HotStuff simulator (src/app.py): the per-node protocol state            *)
(* (NodeState: record_vote, try_form_qc, apply_qc_commit) and the          *)
(* scenario script run by the "Run Simulation" button.                     *)
(*                                                                         *)
(* Python values are modelled as follows.                                  *)
(*   None            the empty tuple <<>>                                  *)
(*   Proposal        a record [block_id, parent_id, view, proposer]        *)
(*   Vote            a record [voter, proposal, signature]                 *)
(*   qc              the pair <<proposal, voters>> (Python: a 2-tuple)     *)
(*   evidence entry  the triple <<voter, other id, id>>                    *)
(*   list / tuple    a sequence;  set  a set;  dict  a function            *)
(* An empty list and None are both <<>>; the script tells them apart       *)
(* nowhere (a QC is a non-empty tuple, and so truthy).                     *)
(***************************************************************************)
EXTENDS Integers, Sequences, FiniteSets, TLC

None == <<>>

Range(s) == {s[k] : k \in 1..Len(s)}

\* The letters chr(ord('A') + i), i = 0..12 (N never exceeds 13).
Letters == <<"A", "B", "C", "D", "E", "F", "G", "H", "I", "J", "K", "L", "M">>

\* Position of a node id in the alphabet: Python compares the one-letter
\* ids by code point, which is this order.
Ord(c) == CHOOSE k \in 1..Len(Letters) : Letters[k] = c

\* The sequence s of node ids in ascending order, duplicates kept: the
\* element at position k goes to the place given by the number of elements
\* that come before it in the order (equal ids stay in their order of
\* arrival).
Ascending(s) ==
    LET place(k) == 1 + Cardinality({j \in 1..Len(s) :
                           \/ Ord(s[j]) < Ord(s[k])
                           \/ Ord(s[j]) = Ord(s[k]) /\ j < k})
    IN [r \in 1..Len(s) |-> s[CHOOSE k \in 1..Len(s) : place(k) = r]]

\* The mutant of sorted that leaves the order of arrival.
unsorted(arg) == arg

\* sorted(...): the argument is evaluated once, then put in order.
sorted(arg) == CHOOSE t \in {Ascending(s) : s \in {arg}} : TRUE

-----------------------------------------------------------------------------
(* Helper & model classes *)

\* Proposal.id(): f"{block_id}@v{view}" -- built from the block id and the
\* view only; parent and proposer do not enter it.
id(proposal) == <<proposal.block_id, "@v", proposal.view>>

\* sign(): "SIG(node:h)" with h the first six hex digits of
\* sha256(node_id | proposal_id); the digest is kept as an uninterpreted
\* token of its two inputs.
sign(node_id, proposal_id) == <<"SIG", node_id, <<"sha256", node_id, proposal_id>>>>

Proposal(block_id, parent_id, view_, proposer) ==
    [block_id |-> block_id, parent_id |-> parent_id, view |-> view_, proposer |-> proposer]

Vote(voter, proposal, signature) ==
    [voter |-> voter, proposal |-> proposal, signature |-> signature]

\* NodeState.__init__
NodeState(nid) ==
    [id |-> nid, received_votes |-> <<>>, evidence |-> {}, committed |-> <<>>,
     highest_qc |-> None]

\* self.received_votes.get(pid, [])
VotesGet(received_votes, pid) ==
    IF pid \in DOMAIN received_votes THEN received_votes[pid] ELSE <<>>

\* The mutant of record_vote's conflict test that leaves out the proposer.
ConflictsNoProposer(ov, vote) ==
    /\ ov.voter = vote.voter
    /\ ov.proposal.view = vote.proposal.view
    /\ ov.proposal.block_id # vote.proposal.block_id

\* The condition of record_vote under which an earlier vote ov and the new
\* vote are evidence of equivocation.
Conflicts(ov, vote) ==
    /\ ov.voter = vote.voter
    /\ ov.proposal.view = vote.proposal.view
    /\ ov.proposal.proposer = vote.proposal.proposer
    /\ ov.proposal.block_id # vote.proposal.block_id

\* The mutant of record_vote that compares the new vote with the first vote
\* of every other list only.
record_vote_first_only(self, vote) ==
    LET pid == id(vote.proposal)
        rv  == IF pid \in DOMAIN self.received_votes
               THEN [self.received_votes EXCEPT ![pid] = Append(@, vote)]
               ELSE self.received_votes @@ (pid :> <<vote>>)
        others == {rv[other_pid][1] : other_pid \in (DOMAIN rv) \ {pid}}
        found == {<<vote.voter, id(ov.proposal), id(vote.proposal)>> :
                    ov \in {o \in others : Conflicts(o, vote)}}
    IN [self EXCEPT !.received_votes = rv, !.evidence = @ \cup found]

\* The mutant of record_vote that keeps only the evidence found by the
\* latest vote.
record_vote_resets_evidence(self, vote) ==
    LET pid == id(vote.proposal)
        rv  == IF pid \in DOMAIN self.received_votes
               THEN [self.received_votes EXCEPT ![pid] = Append(@, vote)]
               ELSE self.received_votes @@ (pid :> <<vote>>)
        others == UNION {Range(rv[other_pid]) : other_pid \in (DOMAIN rv) \ {pid}}
        found == {<<vote.voter, id(ov.proposal), id(vote.proposal)>> :
                    ov \in {o \in others : Conflicts(o, vote)}}
    IN [self EXCEPT !.received_votes = rv, !.evidence = found]

\* NodeState.record_vote
record_vote(self, vote) ==
    LET pid == id(vote.proposal)
        rv  == IF pid \in DOMAIN self.received_votes
               THEN [self.received_votes EXCEPT ![pid] = Append(@, vote)]
               ELSE self.received_votes @@ (pid :> <<vote>>)
        others == UNION {Range(rv[other_pid]) : other_pid \in (DOMAIN rv) \ {pid}}
        found == {<<vote.voter, id(ov.proposal), id(vote.proposal)>> :
                    ov \in {o \in others : Conflicts(o, vote)}}
    IN [self EXCEPT !.received_votes = rv, !.evidence = @ \cup found]

\* The mutant of try_form_qc's threshold test that is off by one.
ReachesQuorumOffByOne(votes, QUORUM) == Len(votes) >= QUORUM - 1

\* try_form_qc's threshold test: len(votes) >= QUORUM
ReachesQuorum(votes, QUORUM) == Len(votes) >= QUORUM

\* The mutant of try_form_qc's highest_qc test that also lets a QC of the
\* same view replace the stored one.
AdvancesSameView(highest_qc, proposal) ==
    highest_qc = None \/ proposal.view >= highest_qc[1].view

\* try_form_qc's test for replacing highest_qc:
\* self.highest_qc is None or proposal.view > self.highest_qc[0].view
Advances(highest_qc, proposal) ==
    highest_qc = None \/ proposal.view > highest_qc[1].view

\* The mutant of try_form_qc whose "return qc" is inside the branch that
\* updates highest_qc: a QC that does not advance highest_qc is not returned.
try_form_qc_return_in_update(self, proposal, QUORUM) ==
    LET pid   == id(proposal)
        votes == VotesGet(self.received_votes, pid)
        first == SubSeq(votes, 1, IF QUORUM < Len(votes) THEN QUORUM ELSE Len(votes))
        qc    == <<proposal, sorted([k \in 1..Len(first) |-> first[k].voter])>>
    IN IF ReachesQuorum(votes, QUORUM) /\ Advances(self.highest_qc, proposal)
       THEN CHOOSE r \in {[self |-> [self EXCEPT !.highest_qc = q], ret |-> q] :
                            q \in {qc}} : TRUE
       ELSE [self |-> self, ret |-> None]

\* NodeState.try_form_qc: the node after the call and the value returned.
try_form_qc(self, proposal, QUORUM) ==
    LET pid   == id(proposal)
        votes == VotesGet(self.received_votes, pid)
        first == SubSeq(votes, 1, IF QUORUM < Len(votes) THEN QUORUM ELSE Len(votes))
        qc    == <<proposal, sorted([k \in 1..Len(first) |-> first[k].voter])>>
    IN IF ReachesQuorum(votes, QUORUM)
       THEN CHOOSE r \in {[self |-> IF Advances(self.highest_qc, proposal)
                                    THEN [self EXCEPT !.highest_qc = q] ELSE self,
                           ret  |-> q] : q \in {qc}} : TRUE
       ELSE [self |-> self, ret |-> None]

\* The mutant of apply_qc_commit that appends without the membership test.
apply_qc_commit_always(self, qc) ==
    [self EXCEPT !.committed = Append(@, qc[1].block_id)]

\* NodeState.apply_qc_commit
apply_qc_commit(self, qc) ==
    LET proposal == qc[1]
        b == proposal.block_id
    IN IF b \notin Range(self.committed)
       THEN [self EXCEPT !.committed = Append(@, b)]
       ELSE self

-----------------------------------------------------------------------------
(* State *)

VARIABLES
    \* sidebar controls
    N, F, faulty_leader, attack_type, auto_run,
    \* the script's variables
    nodes, pc, leader_index, view, current_leader, propA, propB, targetsA,
    targetsB, votes, i, qcs, evidence, new_leader, safe_prop, votes_z, qcs_z,
    \* what the placeholder log_box shows, and the number of "Next step
    \* (manual)" buttons that the script run has created
    log_box, next_step_buttons,
    \* a single NodeState driven call by call: the node, the name of the last
    \* method called on it, the arguments and the result of the last
    \* try_form_qc call
    nd, op, req, ret

controls == <<N, F, faulty_leader, attack_type, auto_run>>
script == <<nodes, pc, leader_index, view, current_leader, propA, propB, targetsA,
            targetsB, votes, i, qcs, evidence, new_leader, safe_prop, votes_z,
            qcs_z, log_box, next_step_buttons>>
single == <<nd, op, req, ret>>
vars == <<controls, script, single>>

-----------------------------------------------------------------------------
(* A single node, called with any sequence of votes, quorum tests and commits *)

\* Most votes delivered to the node.
MaxVotes == 3
\* Largest fault bound f whose quorum 2f+1 is passed to try_form_qc: the
\* largest one that MaxVotes votes can reach.
MaxTestF == (MaxVotes - 1) \div 2

TestVoters == {"A", "B"}
\* The proposals the votes are for: two blocks of one proposer in one view
\* (X@v1 and Y@v1 by A), the second block from another proposer (Y@v1 by B,
\* which has the identity of Y@v1 by A), and in another view (Y@v2 by A).
TestProposals ==
    {Proposal("X", "GENESIS", 1, "A"), Proposal("Y", "GENESIS", 1, "A"),
     Proposal("Y", "GENESIS", 1, "B"), Proposal("Y", "GENESIS", 2, "A")}
TestQuorums == {2 * f + 1 : f \in 0..MaxTestF}

\* Every vote the node holds, whatever list it is in.
Recorded(self) == UNION {Range(self.received_votes[pid]) : pid \in DOMAIN self.received_votes}

RECURSIVE SumLen(_, _)
SumLen(received_votes, pids) ==
    IF pids = {} THEN 0
    ELSE LET pid == CHOOSE x \in pids : TRUE
         IN Len(received_votes[pid]) + SumLen(received_votes, pids \ {pid})

VoteCount(self) == SumLen(self.received_votes, DOMAIN self.received_votes)

NodeInit ==
    /\ nd = NodeState("A")
    /\ op = "init"
    /\ req = None
    /\ ret = None
    /\ N = None /\ F = None /\ faulty_leader = None /\ attack_type = None
    /\ auto_run = None
    /\ nodes = None /\ pc = "none" /\ leader_index = None /\ view = None
    /\ current_leader = None /\ propA = None /\ propB = None
    /\ targetsA = None /\ targetsB = None /\ votes = None /\ i = None
    /\ qcs = None /\ evidence = None /\ new_leader = None /\ safe_prop = None
    /\ votes_z = None /\ qcs_z = None /\ log_box = None
    /\ next_step_buttons = None

\* nd.record_vote(Vote(voter, proposal, sign(voter, proposal.id())))
RecordVote ==
    /\ VoteCount(nd) < MaxVotes
    /\ \E voter \in TestVoters, proposal \in TestProposals :
          nd' = record_vote(nd, Vote(voter, proposal, sign(voter, id(proposal))))
    /\ op' = "record_vote"
    /\ UNCHANGED <<req, ret, controls, script>>

\* ret = nd.try_form_qc(proposal, QUORUM)
TryFormQc ==
    /\ \E proposal \in TestProposals, QUORUM \in TestQuorums :
          \E r \in {try_form_qc(nd, proposal, QUORUM)} :
             /\ nd' = r.self
             /\ ret' = r.ret
             /\ req' = <<proposal, QUORUM>>
    /\ op' = "try_form_qc"
    /\ UNCHANGED <<controls, script>>

\* nd.apply_qc_commit(ret), for a QC that try_form_qc returned
ApplyQcCommit ==
    /\ ret # None
    /\ nd' = apply_qc_commit(nd, ret)
    /\ op' = "apply_qc_commit"
    /\ UNCHANGED <<req, ret, controls, script>>

NodeNext == RecordVote \/ TryFormQc \/ ApplyQcCommit

NodeSpec == NodeInit /\ [][NodeNext]_vars

-----------------------------------------------------------------------------
(* UI & simulation logic: the sidebar controls and the script *)

\* st.sidebar.slider("Number of validators N", min_value=4, max_value=13)
MinN == 4
MaxN == 13

\* max_f = (N - 1) // 3
max_f(n) == (n - 1) \div 3

\* QUORUM = 2 * F + 1
QUORUM == 2 * F + 1

\* gen_node_ids(n): the first n letters (n is below 26, so the "Node{i}"
\* branch is never taken).
gen_node_ids(n) == [k \in 1..n |-> Letters[k]]

NODE_IDS == gen_node_ids(N)

\* The options of the "Attack type" selectbox.
Equivocation == "Equivocation (split proposals)"
WithholdQC == "Withhold QC"
DropMessages == "Drop messages (selective silence)"
AttackTypes == {Equivocation, WithholdQC, DropMessages}

\* The mutant of the first branch test that takes every attack type for the
\* equivocation attack.
StartsWithAnything(attack) == attack \in AttackTypes

\* attack_type.startswith("Equivocation"), over the options of the selectbox
StartsWithEquivocation(attack) == attack = Equivocation

\* attack_type.startswith("Withhold QC"), over the options of the selectbox
StartsWithWithholdQC(attack) == attack = WithholdQC

\* targetsA = NODE_IDS[:half], with half = len(NODE_IDS)//2
TargetsA(ids) == SubSeq(ids, 1, Len(ids) \div 2)

\* targetsB = NODE_IDS[half:]
TargetsB(ids) == SubSeq(ids, (Len(ids) \div 2) + 1, Len(ids))

\* {nid: NodeState(nid) for nid in NODE_IDS}
FreshNodes == [nid \in Range(NODE_IDS) |-> NodeState(nid)]

\* log(msg, kind): log_box is one st.empty() placeholder, and every call
\* replaces what it shows by the message (the kind first).
Log(kind, msg) == <<kind>> \o msg

\* step_pause() without Auto-play calls st.button("Next step (manual)"): every
\* call makes a button of the same label and no key, and the second one of a
\* script run is rejected with an exception (a duplicate widget).
DuplicateWidget == ~auto_run /\ next_step_buttons >= 1

\* step_pause(): the buttons of the run after the call. With Auto-play it is
\* time.sleep(step_delay), which changes nothing.
step_pause ==
    IF auto_run \/ DuplicateWidget THEN next_step_buttons ELSE next_step_buttons + 1

\* Where the script is after a step_pause() that is followed by the statement
\* at next: there, or stopped by the exception.
AfterPause(next) == IF DuplicateWidget THEN "raised" ELSE next

\* The mutant of the broadcast that leaves out the voter's own node.
DeliverToOthers(ns, vote) ==
    [nid \in DOMAIN ns |-> IF nid = vote.voter THEN ns[nid] ELSE record_vote(ns[nid], vote)]

\* for nd in nodes.values(): nd.record_vote(vote)
Deliver(ns, vote) == [nid \in DOMAIN ns |-> record_vote(ns[nid], vote)]

\* if qc: -- a QC is truthy, None is not.
Truthy(qc) == qc # None

\* The calls nd.try_form_qc(p, QUORUM) for each p of props in turn, on one
\* node: the node afterwards, and the list of QCs with the QCs returned (the
\* truthy results) appended.
RECURSIVE FormOnNode(_, _, _, _)
FormOnNode(self, props, quorum, formed) ==
    IF props = <<>> THEN [self |-> self, qcs |-> formed]
    ELSE LET r == try_form_qc(self, Head(props), quorum)
         IN FormOnNode(r.self, Tail(props), quorum, formed \o SelectSeq(<<r.ret>>, Truthy))

\* for nd in nodes.values(): the QCs that the nodes ids[k], ids[k+1], ...
\* return, in that order. A call changes the state of its own node only.
RECURSIVE ReturnedQCs(_, _, _, _, _)
ReturnedQCs(ns, ids, props, quorum, k) ==
    IF k > Len(ids) THEN <<>>
    ELSE FormOnNode(ns[ids[k]], props, quorum, <<>>).qcs
           \o ReturnedQCs(ns, ids, props, quorum, k + 1)

\* for nd in nodes.values(): nd.try_form_qc(p, QUORUM) for each p of props;
\* the nodes afterwards and the QCs collected.
FormQCs(ns, ids, props, quorum) ==
    [nodes |-> [nid \in DOMAIN ns |-> FormOnNode(ns[nid], props, quorum, <<>>).self],
     qcs   |-> ReturnedQCs(ns, ids, props, quorum, 1)]

\* The mutant of the outcome report that reports success whatever was formed.
FormationReportAlwaysSuccess(formed) ==
    Log("success", <<"No QC formed for X or Y">>)

\* if not qcs: log(..., "success") else: log(f"Unexpected QC formed: {qcs}", "warning")
FormationReport(formed) ==
    IF formed = <<>>
    THEN Log("success", <<"No QC formed for X or Y">>)
    ELSE Log("warning", <<"Unexpected QC formed", formed>>)

\* The mutant of the commit that reaches the proposer of the block only.
CommitProposerOnly(ns, qc) ==
    [nid \in DOMAIN ns |-> IF nid = qc[1].proposer THEN apply_qc_commit(ns[nid], qc)
                           ELSE ns[nid]]

\* for nd in nodes.values(): nd.apply_qc_commit(qcs_z[0])
CommitViaQC(ns, qc) == [nid \in DOMAIN ns |-> apply_qc_commit(ns[nid], qc)]

\* log(f" {nid}: {commits}") for every node, in the order of NODE_IDS: what
\* log_box shows after the calls, box being what it showed before them.
RECURSIVE LogCommits(_, _, _)
LogCommits(box, ids, ns) ==
    IF ids = <<>> THEN box
    ELSE LogCommits(Log("info", <<"committed", Head(ids), ns[Head(ids)].committed>>),
                    Tail(ids), ns)

Init ==
    /\ N \in MinN..MaxN
    /\ F \in 0..max_f(N)
    /\ faulty_leader \in {"None"} \cup Range(NODE_IDS)
    /\ attack_type \in AttackTypes
    /\ auto_run \in BOOLEAN
    /\ nodes = FreshNodes
    /\ pc = "idle"
    \* the script's variables are not bound before the run: a number is 0, a
    \* node id the empty string, anything else None or empty
    /\ leader_index = 0 /\ view = 0 /\ current_leader = ""
    /\ propA = None /\ propB = None /\ targetsA = None /\ targetsB = None
    /\ votes = None /\ i = 0 /\ qcs = None /\ evidence = {}
    /\ new_leader = "" /\ safe_prop = None /\ votes_z = None /\ qcs_z = None
    /\ log_box = <<>>
    /\ next_step_buttons = 0
    /\ nd = None /\ op = "none" /\ req = None /\ ret = None

\* if st.button("Run Simulation"): reset, and the leader of view 1
RunSimulation ==
    /\ pc = "idle"
    /\ nodes' = FreshNodes
    /\ leader_index' = 0
    /\ view' = 1
    /\ current_leader' = IF faulty_leader # "None" THEN faulty_leader
                         ELSE NODE_IDS[(0 % Len(NODE_IDS)) + 1]
    /\ log_box' = Log("info", <<"leader", 1, current_leader'>>)
    /\ pc' = "attack"
    /\ UNCHANGED <<controls, single, propA, propB, targetsA, targetsB, votes, i, qcs,
                   evidence, new_leader, safe_prop, votes_z, qcs_z, next_step_buttons>>

\* if attack_type.startswith("Equivocation"): two proposals to two halves
ProposalPhase ==
    /\ pc = "attack"
    /\ StartsWithEquivocation(attack_type)
    /\ propA' = Proposal("X", "GENESIS", view, current_leader)
    /\ propB' = Proposal("Y", "GENESIS", view, current_leader)
    /\ targetsA' = TargetsA(NODE_IDS)
    /\ targetsB' = TargetsB(NODE_IDS)
    /\ log_box' = Log("info", <<"sends", id(propA'), targetsA', id(propB'), targetsB'>>)
    /\ next_step_buttons' = step_pause
    \* votes = [] and the loop over targetsA (half = N // 2 >= 2: neither
    \* group is empty)
    /\ votes' = IF DuplicateWidget THEN votes ELSE <<>>
    /\ i' = IF DuplicateWidget THEN i ELSE 1
    /\ pc' = AfterPause("votersA")
    /\ UNCHANGED <<controls, single, nodes, leader_index, view, current_leader, qcs,
                   evidence, new_leader, safe_prop, votes_z, qcs_z>>

\* for v in targetsA: one turn of the loop
VoteA ==
    /\ pc = "votersA"
    /\ LET v    == targetsA[i]
           vote == Vote(v, propA, sign(v, id(propA)))
       IN /\ votes' = Append(votes, vote)
          /\ nodes' = Deliver(nodes, vote)
          /\ log_box' = Log("info", <<"voted", v, id(propA)>>)
    /\ IF i < Len(targetsA)
       THEN i' = i + 1 /\ pc' = pc /\ UNCHANGED next_step_buttons
       ELSE /\ next_step_buttons' = step_pause
            /\ i' = IF DuplicateWidget THEN i ELSE 1
            /\ pc' = AfterPause("votersB")
    /\ UNCHANGED <<controls, single, leader_index, view, current_leader, propA, propB,
                   targetsA, targetsB, qcs, evidence, new_leader, safe_prop, votes_z,
                   qcs_z>>

\* for v in targetsB: one turn of the loop
VoteB ==
    /\ pc = "votersB"
    /\ LET v    == targetsB[i]
           vote == Vote(v, propB, sign(v, id(propB)))
       IN /\ votes' = Append(votes, vote)
          /\ nodes' = Deliver(nodes, vote)
          /\ log_box' = Log("info", <<"voted", v, id(propB)>>)
    /\ IF i < Len(targetsB)
       THEN i' = i + 1 /\ pc' = pc /\ UNCHANGED next_step_buttons
       ELSE /\ next_step_buttons' = step_pause
            /\ i' = IF DuplicateWidget THEN i ELSE 1
            /\ pc' = AfterPause("form")
    /\ UNCHANGED <<controls, single, leader_index, view, current_leader, propA, propB,
                   targetsA, targetsB, qcs, evidence, new_leader, safe_prop, votes_z,
                   qcs_z>>

\* "Try to form QC globally", and the report of the outcome
QCFormationPhase ==
    /\ pc = "form"
    /\ \E r \in {FormQCs(nodes, NODE_IDS, <<propA, propB>>, QUORUM)} :
          /\ nodes' = r.nodes
          /\ qcs' = r.qcs
          /\ log_box' = FormationReport(r.qcs)
    /\ pc' = "evidence"
    /\ UNCHANGED <<controls, single, leader_index, view, current_leader, propA, propB,
                   targetsA, targetsB, votes, i, evidence, new_leader, safe_prop,
                   votes_z, qcs_z, next_step_buttons>>

\* "collect equivocation evidence"
EvidenceReportPhase ==
    /\ pc = "evidence"
    /\ evidence' = UNION {nodes[nid].evidence : nid \in DOMAIN nodes}
    \* the heading and then one warning for every entry, in the order in which
    \* the set yields them: log_box is left with the last one
    /\ IF evidence' # {}
       THEN \E e \in evidence' :
               log_box' = Log("warning", <<"signed conflicting proposals", e>>)
       ELSE log_box' = Log("info", <<"No equivocation evidence found">>)
    /\ next_step_buttons' = step_pause
    /\ pc' = AfterPause("viewchange")
    /\ UNCHANGED <<controls, single, nodes, leader_index, view, current_leader, propA,
                   propB, targetsA, targetsB, votes, i, qcs, new_leader, safe_prop,
                   votes_z, qcs_z>>

\* "View change"
ViewChangePhase ==
    /\ pc = "viewchange"
    /\ view' = view + 1
    /\ leader_index' = leader_index + 1
    /\ new_leader' = NODE_IDS[(leader_index' % Len(NODE_IDS)) + 1]
    /\ log_box' = Log("info", <<"view-change", view', new_leader'>>)
    /\ next_step_buttons' = step_pause
    /\ pc' = AfterPause("safe")
    /\ UNCHANGED <<controls, single, nodes, current_leader, propA, propB, targetsA,
                   targetsB, votes, i, qcs, evidence, safe_prop, votes_z, qcs_z>>

\* "New leader proposes safe block"
SafeRoundPhase ==
    /\ pc = "safe"
    /\ safe_prop' = Proposal("Z", "GENESIS", view, new_leader)
    /\ log_box' = Log("info", <<"proposes", new_leader, id(safe_prop')>>)
    /\ next_step_buttons' = step_pause
    /\ votes_z' = IF DuplicateWidget THEN votes_z ELSE <<>>
    /\ i' = IF DuplicateWidget THEN i ELSE 1
    /\ pc' = AfterPause("votersZ")
    /\ UNCHANGED <<controls, single, nodes, leader_index, view, current_leader, propA,
                   propB, targetsA, targetsB, votes, qcs, evidence, new_leader, qcs_z>>

\* for nid in NODE_IDS: one turn of the loop
VoteZ ==
    /\ pc = "votersZ"
    /\ LET nid == NODE_IDS[i]
           v   == Vote(nid, safe_prop, sign(nid, id(safe_prop)))
       IN /\ votes_z' = Append(votes_z, v)
          /\ nodes' = Deliver(nodes, v)
          /\ log_box' = Log("info", <<"voted", nid, id(safe_prop)>>)
    /\ IF i < Len(NODE_IDS)
       THEN i' = i + 1 /\ pc' = pc /\ UNCHANGED next_step_buttons
       ELSE /\ next_step_buttons' = step_pause
            /\ i' = IF DuplicateWidget THEN i ELSE 1
            /\ pc' = AfterPause("commit")
    /\ UNCHANGED <<controls, single, leader_index, view, current_leader, propA, propB,
                   targetsA, targetsB, votes, qcs, evidence, new_leader, safe_prop,
                   qcs_z>>

\* "Form QC for Z" and "Commit via QC", and the report of the outcome
CommitPhase ==
    /\ pc = "commit"
    /\ \E r \in {FormQCs(nodes, NODE_IDS, <<safe_prop>>, QUORUM)} :
          /\ qcs_z' = r.qcs
          /\ nodes' = IF r.qcs # <<>> THEN CommitViaQC(r.nodes, r.qcs[1]) ELSE r.nodes
          /\ log_box' = IF r.qcs # <<>>
                        THEN Log("success",
                                 <<"QC formed", id(safe_prop), safe_prop.block_id>>)
                        ELSE Log("error", <<"No QC formed for Z">>)
    /\ pc' = "summary"
    /\ UNCHANGED <<controls, single, leader_index, view, current_leader, propA, propB,
                   targetsA, targetsB, votes, i, qcs, evidence, new_leader, safe_prop,
                   votes_z, next_step_buttons>>

\* "final state summary": the heading, then one line for every node
SummaryPhase ==
    /\ pc = "summary"
    /\ log_box' = LogCommits(Log("info", <<"Final committed blocks per node">>),
                             NODE_IDS, nodes)
    /\ pc' = "finish"
    /\ UNCHANGED <<controls, single, nodes, leader_index, view, current_leader, propA,
                   propB, targetsA, targetsB, votes, i, qcs, evidence, new_leader,
                   safe_prop, votes_z, qcs_z, next_step_buttons>>

\* elif attack_type.startswith("Withhold QC")
WithholdQCBranch ==
    /\ pc = "attack"
    /\ ~StartsWithEquivocation(attack_type)
    /\ StartsWithWithholdQC(attack_type)
    /\ log_box' = Log("info", <<"Withhold QC scenario not fully implemented">>)
    /\ pc' = "finish"
    /\ UNCHANGED <<controls, single, nodes, leader_index, view, current_leader, propA,
                   propB, targetsA, targetsB, votes, i, qcs, evidence, new_leader,
                   safe_prop, votes_z, qcs_z, next_step_buttons>>

\* else
OtherAttackBranch ==
    /\ pc = "attack"
    /\ ~StartsWithEquivocation(attack_type)
    /\ ~StartsWithWithholdQC(attack_type)
    /\ log_box' = Log("info", <<"Other attack types are placeholders">>)
    /\ pc' = "finish"
    /\ UNCHANGED <<controls, single, nodes, leader_index, view, current_leader, propA,
                   propB, targetsA, targetsB, votes, i, qcs, evidence, new_leader,
                   safe_prop, votes_z, qcs_z, next_step_buttons>>

\* st.balloons(); log("Simulation complete.")
Complete ==
    /\ pc = "finish"
    /\ log_box' = Log("info", <<"Simulation complete">>)
    /\ pc' = "done"
    /\ UNCHANGED <<controls, single, nodes, leader_index, view, current_leader, propA,
                   propB, targetsA, targetsB, votes, i, qcs, evidence, new_leader,
                   safe_prop, votes_z, qcs_z, next_step_buttons>>

Next ==
    \/ RunSimulation
    \/ ProposalPhase
    \/ VoteA
    \/ VoteB
    \/ QCFormationPhase
    \/ EvidenceReportPhase
    \/ ViewChangePhase
    \/ SafeRoundPhase
    \/ VoteZ
    \/ CommitPhase
    \/ SummaryPhase
    \/ WithholdQCBranch
    \/ OtherAttackBranch
    \/ Complete

Spec == Init /\ [][Next]_vars

-----------------------------------------------------------------------------
(* Properties *)

\* The script has passed the QC formation of the faulty view.
AfterFormation ==
    /\ attack_type = Equivocation
    /\ pc \in {"evidence", "viewchange", "safe", "votersZ", "commit", "summary",
              "finish", "done"}

\* The equivocation script has run to its end.
RunEnded == attack_type = Equivocation /\ pc = "done"

\* The run of the equivocation script is over: it has run to its end, or an
\* exception has stopped it.
RunOver == attack_type = Equivocation /\ pc \in {"done", "raised"}

\* How often block b occurs in a committed list.
Occurrences(committed, b) == Cardinality({k \in 1..Len(committed) : committed[k] = b})

\* v1 and v2 are by one voter, for two blocks of one proposer in one view.
Equivocates(v1, v2) ==
    /\ v1.voter = v2.voter
    /\ v1.proposal.view = v2.proposal.view
    /\ v1.proposal.proposer = v2.proposal.proposer
    /\ v1.proposal.block_id # v2.proposal.block_id

\* C1: in an equivocation run, the QCs returned by the nodes' try_form_qc
\* calls are for at most one proposal of a view: never one for X@v1 and one
\* for Y@v1.
C1_OneProposalPerView ==
    AfterFormation =>
        \A q1, q2 \in Range(qcs) : q1[1].view = q2[1].view => id(q1[1]) = id(q2[1])

\* C2: when both target groups of the split are smaller than the quorum, no
\* node's try_form_qc returns a QC for X or for Y.
C2_QuorumSafety ==
    (AfterFormation /\ Len(targetsA) < QUORUM /\ Len(targetsB) < QUORUM) => qcs = <<>>

\* C2 witness: N = 7, f = 2, groups of 3 and 4 below the quorum of 5, the
\* formation phase done and no QC returned.
C2_Witness ==
    /\ AfterFormation
    /\ N = 7 /\ F = 2 /\ QUORUM = 5
    /\ Len(targetsA) = 3 /\ Len(targetsB) = 4
    /\ \A nid \in DOMAIN nodes :
          /\ Len(VotesGet(nodes[nid].received_votes, id(propA))) = 3
          /\ Len(VotesGet(nodes[nid].received_votes, id(propB))) = 4
    /\ qcs = <<>>

\* C3: whenever the node has recorded two votes by one voter for different
\* blocks of one proposer in one view, in whatever order and with whatever
\* votes in between, its evidence has an entry naming the voter and both
\* proposal identities.
C3_DetectionComplete ==
    \A v1, v2 \in Recorded(nd) :
        Equivocates(v1, v2) =>
            \E e \in nd.evidence :
                /\ e[1] = v1.voter
                /\ {e[2], e[3]} = {id(v1.proposal), id(v2.proposal)}

\* C3 witness: three votes recorded, two of them equivocating and not next
\* to each other in their arrival (the list of the second block holds
\* another voter's vote first), and the evidence is there.
C3_Witness ==
    /\ VoteCount(nd) = 3
    /\ \E v1, v2 \in Recorded(nd) :
          /\ Equivocates(v1, v2)
          /\ nd.received_votes[id(v1.proposal)][1].voter # v1.voter
          /\ <<v1.voter, id(v1.proposal), id(v2.proposal)>> \in nd.evidence

\* C4: every evidence entry (voter, idA, idB) stands for two recorded votes
\* of that voter, one under each identity, for different blocks of the same
\* proposer in the same view; votes that differ in view or in proposer put
\* nobody into the evidence.
C4_NoFalseEquivocation ==
    \A e \in nd.evidence :
        \E v1 \in Range(VotesGet(nd.received_votes, e[2])),
           v2 \in Range(VotesGet(nd.received_votes, e[3])) :
            /\ v1.voter = e[1]
            /\ Equivocates(v1, v2)

\* C4 witness: voter A has voted for X and Y of proposer A in view 1 and for
\* a proposal of view 2, and the evidence holds the one entry for view 1.
C4_Witness ==
    /\ nd.evidence = {<<"A", id(Proposal("X", "GENESIS", 1, "A")),
                             id(Proposal("Y", "GENESIS", 1, "A"))>>}
    /\ \E v \in Recorded(nd) : v.voter = "A" /\ v.proposal.view = 2

\* C5: recording a vote of a voter who already has a vote in the same
\* proposal's list changes the result of try_form_qc for no proposal of that
\* identity and no quorum.
C5_DuplicateVoteIdempotent ==
    [][\A proposal \in TestProposals, quorum \in TestQuorums :
          LET pid    == id(proposal)
              before == VotesGet(nd.received_votes, pid)
              after  == VotesGet(nd'.received_votes, pid)
          IN (/\ op' = "record_vote"
              /\ Len(after) = Len(before) + 1
              /\ \E k \in 1..Len(before) : before[k].voter = after[Len(after)].voter)
             => try_form_qc(nd', proposal, quorum).ret = try_form_qc(nd, proposal, quorum).ret
      ]_vars

\* C6: a QC returned by try_form_qc(proposal, Q) names at least Q distinct
\* voters.
C6_QuorumOfDistinctVoters ==
    ret # None => Cardinality(Range(ret[2])) >= req[2]

\* C7: no block is twice in the committed list, and applying the same QC
\* again leaves the list as the first application left it.
C7_CommitIdempotence ==
    /\ [](\A b \in Range(nd.committed) : Occurrences(nd.committed, b) = 1)
    /\ [][(op = "apply_qc_commit" /\ op' = "apply_qc_commit" /\ ret' = ret)
            => nd'.committed = nd.committed]_vars

\* C7 witness: the last call applied a QC for Y, Y had been committed before
\* X was, and the list holds each block once.
C7_Witness ==
    /\ op = "apply_qc_commit"
    /\ ret[1].block_id = "Y"
    /\ nd.committed = <<"Y", "X">>

\* C8: once set, highest_qc changes only to a QC of a strictly greater view.
C8_HighestQcMonotonic ==
    [][nd.highest_qc # None =>
          \/ nd'.highest_qc = nd.highest_qc
          \/ /\ nd'.highest_qc # None
             /\ nd'.highest_qc[1].view > nd.highest_qc[1].view]_vars

\* C8 witness: highest_qc is of view 2, and the last try_form_qc call
\* returned a QC of view 1, which did not replace it.
C8_Witness ==
    /\ op = "try_form_qc"
    /\ ret # None
    /\ ret[1].view = 1
    /\ nd.highest_qc # None
    /\ nd.highest_qc[1].view = 2

\* The places of the script, in the order it passes them.
PcOrder == <<"idle", "attack", "votersA", "votersB", "form", "evidence", "viewchange",
             "safe", "votersZ", "commit", "summary", "finish", "done">>
PcIndex(p) == CHOOSE k \in 1..Len(PcOrder) : PcOrder[k] = p

\* C9: an equivocation run reaches its end (it cannot stop before the end,
\* no step ends it with an exception, and every step moves it forward: to a
\* later place, or to the next turn of a loop over at most N validators),
\* and at the end every node's try_form_qc has returned a QC for Z and every
\* committed list holds Z exactly once.
C9_CommitPhaseSucceeds ==
    /\ [](RunEnded =>
            /\ Len(qcs_z) = N
            /\ \A q \in Range(qcs_z) : q[1] = safe_prop /\ q[1].block_id = "Z"
            /\ \A nid \in Range(NODE_IDS) : Occurrences(nodes[nid].committed, "Z") = 1)
    /\ [](attack_type = Equivocation => (pc = "done" \/ ENABLED Next))
    /\ [][attack_type = Equivocation =>
            /\ pc' # "raised"
            /\ \/ PcIndex(pc') > PcIndex(pc)
               \/ PcIndex(pc') = PcIndex(pc) /\ i < i' /\ i' <= N]_vars

\* C10: the run for N = 7, f = 2, once over, has 3 votes for X and 4 for Y in
\* view 1, no QC for either, no evidence, view 2 with the new leader's
\* proposal Z, 7 votes for Z, QCs for Z of at least 5 voters, and [Z] as
\* every node's committed list.
C10_Scenario ==
    (RunOver /\ N = 7 /\ F = 2) =>
        /\ QUORUM = 5
        /\ Cardinality({k \in 1..Len(votes) : votes[k].proposal.block_id = "X"}) = 3
        /\ Cardinality({k \in 1..Len(votes) : votes[k].proposal.block_id = "Y"}) = 4
        /\ \A k \in 1..Len(votes) : votes[k].proposal.view = 1
        /\ qcs = <<>>
        /\ evidence = {}
        /\ view = 2
        /\ safe_prop = Proposal("Z", "GENESIS", 2, new_leader)
        /\ {votes_z[k].voter : k \in 1..Len(votes_z)} = Range(NODE_IDS)
        /\ Len(votes_z) = 7
        /\ \A k \in 1..Len(votes_z) : votes_z[k].proposal = safe_prop
        /\ qcs_z # <<>>
        /\ \A q \in Range(qcs_z) : q[1] = safe_prop /\ Cardinality(Range(q[2])) >= 5
        /\ \A nid \in Range(NODE_IDS) : nodes[nid].committed = <<"Z">>

\* The entry that the log call of an unimplemented attack type leaves.
NotImplementedNotice(attack) ==
    IF attack = WithholdQC
    THEN <<"info", "Withhold QC scenario not fully implemented">>
    ELSE <<"info", "Other attack types are placeholders">>

\* The node holds nothing: no vote, no evidence, no highest_qc, no commit.
Untouched(self) ==
    /\ DOMAIN self.received_votes = {}
    /\ self.evidence = {}
    /\ self.highest_qc = None
    /\ self.committed = <<>>

\* C11: with the attack type Withhold QC or Drop messages no node's state is
\* ever touched and no vote, QC or evidence is collected; the step of the
\* attack branch leaves the not-implemented notice of that attack type in
\* log_box and leads to the end of the script, where the completion message
\* replaces it.
C11_NotImplementedPath ==
    attack_type \in {WithholdQC, DropMessages} =>
        /\ \A nid \in DOMAIN nodes : Untouched(nodes[nid])
        /\ votes = None /\ qcs = None /\ evidence = {} /\ qcs_z = None
        /\ pc \in {"idle", "attack", "finish", "done"}
        /\ pc = "finish" => log_box = NotImplementedNotice(attack_type)
        /\ pc = "done" => log_box = <<"info", "Simulation complete">>

\* C11 witness: a Drop messages run of 13 validators, started with Auto-play
\* unchecked, has passed the attack branch: log_box shows the notice.
C11_Witness ==
    /\ pc = "finish"
    /\ attack_type = DropMessages
    /\ N = 13
    /\ ~auto_run
    /\ log_box = NotImplementedNotice(DropMessages)
    /\ \A nid \in Range(NODE_IDS) : Untouched(nodes[nid])

\* C12: for each voter and each unordered pair of conflicting proposal
\* identities the evidence set holds at most one entry.
C12_EvidenceOncePerConflict ==
    \A e1, e2 \in nd.evidence :
        (e1[1] = e2[1] /\ {e1[2], e1[3]} = {e2[2], e2[3]}) => e1 = e2

\* The validator after nid in the order of NODE_IDS, wrapping around.
Successor(nid) == NODE_IDS[(Ord(nid) % Len(NODE_IDS)) + 1]

\* C13: the view change adds exactly 1 to the view, and makes the validator
\* that follows the leader of the previous view the new leader.
C13_ViewChangeRotates ==
    [][pc = "viewchange" =>
          /\ view' = view + 1
          /\ new_leader' = Successor(current_leader)]_vars

\* log_box shows the warning of an unexpected QC.
Warned(box) == box # <<>> /\ box[1] = "warning" /\ box[2] = "Unexpected QC formed"

\* log_box shows the success report of the no-quorum outcome.
ReportedNoQuorum(box) == box = <<"success", "No QC formed for X or Y">>

\* Some node holds a QC of the faulty view (before the votes for Z are
\* counted, a node's highest_qc can only be one for X or Y).
SomeNodeFormed(ns) == \E nid \in DOMAIN ns : ns[nid].highest_qc # None

\* C14: the step of the QC formation of the faulty view leaves the warning
\* in log_box exactly when some node formed a QC for X or Y, and the
\* no-quorum success report exactly when none did; and once a QC for X or Y
\* has formed, log_box never shows the no-quorum success report.
C14_ViolationReported ==
    /\ [][pc = "form" =>
            /\ Warned(log_box') <=> qcs' # <<>>
            /\ Warned(log_box') <=> SomeNodeFormed(nodes')
            /\ ReportedNoQuorum(log_box') <=> qcs' = <<>>]_vars
    /\ []((AfterFormation /\ qcs # <<>>) => ~ReportedNoQuorum(log_box))

\* C14 witness: N = 6, f = 1, where the halves of 3 reach the quorum of 3:
\* every node formed QCs, and log_box shows the warning.
C14_Witness ==
    /\ AfterFormation /\ pc = "evidence"
    /\ N = 6 /\ F = 1
    /\ Len(qcs) = 12
    /\ \A nid \in DOMAIN nodes : nodes[nid].highest_qc # None
    /\ Warned(log_box)

\* The sequence a is the beginning of the sequence b.
IsPrefix(a, b) == Len(a) <= Len(b) /\ SubSeq(b, 1, Len(a)) = a

\* C15: every call leaves the evidence entries in place, leaves every vote
\* list as a prefix of the list afterwards, and leaves the committed list as
\* a prefix of the list afterwards.
C15_GrowOnly ==
    [][/\ nd.evidence \subseteq nd'.evidence
       /\ \A pid \in DOMAIN nd.received_votes :
             /\ pid \in DOMAIN nd'.received_votes
             /\ IsPrefix(nd.received_votes[pid], nd'.received_votes[pid])
       /\ IsPrefix(nd.committed, nd'.committed)]_vars

\* C15 witness: the node holds evidence, a list of two votes and a commit,
\* and the last call recorded a vote that found no conflict of its own.
C15_Witness ==
    /\ op = "record_vote"
    /\ nd.evidence # {}
    /\ nd.committed # <<>>
    /\ \E pid \in DOMAIN nd.received_votes :
          /\ Len(nd.received_votes[pid]) = 2
          /\ nd.received_votes[pid][2].voter = "B"
          /\ \A e \in nd.evidence : e[1] = "A"

\* A node that was delivered the same votes in the same order and was asked
\* for no QC and no commit.
SameVotesOnly(self) == [NodeState("B") EXCEPT !.received_votes = self.received_votes]

\* C16: a try_form_qc call that repeats the call before it (same proposal,
\* same Q, no vote recorded in between) returns the same QC; and for every
\* proposal and Q the node returns what another node holding the same vote
\* lists returns.
C16_QcDeterminism ==
    /\ [][(op = "try_form_qc" /\ op' = "try_form_qc" /\ req' = req) => ret' = ret]_vars
    /\ [](\A proposal \in TestProposals, quorum \in TestQuorums :
            try_form_qc(nd, proposal, quorum).ret
              = try_form_qc(SameVotesOnly(nd), proposal, quorum).ret)

\* C16 witness: the last call returned a QC with three voters for a proposal
\* for which an earlier call, with a smaller Q, had already returned the QC
\* the node still holds as highest_qc.
C16_Witness ==
    /\ op = "try_form_qc"
    /\ ret # None
    /\ req[2] = 3
    /\ Len(ret[2]) = 3
    /\ nd.highest_qc # None
    /\ nd.highest_qc[1] = ret[1]
    /\ Len(nd.highest_qc[2]) < 3

\* The votes of the attack round cast by validator v.
VotesBy(v) == {k \in 1..Len(votes) : votes[k].voter = v}

\* C17: once the attack round of an equivocation run is over (the script
\* has passed both voting loops, or the run has stopped), targetsA and
\* targetsB share no validator and together hold every validator, every
\* validator has cast exactly one vote, in view 1 and for X or for Y; and
\* when the run is over every node's evidence set, and the evidence
\* collected from the nodes, is empty.
C17_OneVoteEach ==
    /\ (AfterFormation \/ RunOver) =>
          /\ Range(targetsA) \cap Range(targetsB) = {}
          /\ Range(targetsA) \cup Range(targetsB) = Range(NODE_IDS)
          /\ Len(votes) = N
          /\ \A v \in Range(NODE_IDS) :
                /\ Cardinality(VotesBy(v)) = 1
                /\ \A k \in VotesBy(v) :
                      /\ votes[k].proposal.view = 1
                      /\ votes[k].proposal.block_id
                           = IF v \in Range(targetsA) THEN "X" ELSE "Y"
    /\ RunOver =>
          /\ \A nid \in DOMAIN nodes : nodes[nid].evidence = {}
          /\ evidence = {}

\* How often x occurs in the sequence s.
Count(s, x) == Cardinality({k \in 1..Len(s) : s[k] = x})

\* The tuple t is in ascending order of its ids.
IsAscending(t) == \A j, k \in 1..Len(t) : j < k => Ord(t[j]) <= Ord(t[k])

\* C18: a call try_form_qc(proposal, Q) returns a QC exactly when the list
\* recorded under id(proposal) holds at least Q votes. The QC returned is for
\* the proposal asked for, its voter tuple has Q entries in ascending order
\* and holds each voter as often as the first Q votes of the list do; no call
\* changes the vote lists, the evidence or the committed list, and a call
\* that returns no QC changes nothing of the node. Where a list holds at
\* least Q votes, recording a further vote leaves the QC that a call returns
\* as it was.
C18_TryFormQc ==
    /\ [][op' = "try_form_qc" =>
            LET proposal == req'[1]
                Q        == req'[2]
                held     == VotesGet(nd.received_votes, id(proposal))
            IN /\ (ret' # None) <=> (Len(held) >= Q)
               /\ ret' # None =>
                     /\ ret'[1] = proposal
                     /\ Len(ret'[2]) = Q
                     /\ IsAscending(ret'[2])
                     /\ \A v \in TestVoters :
                           Count(ret'[2], v)
                             = Cardinality({k \in 1..Q : held[k].voter = v})
               /\ ret' = None => nd' = nd
               /\ nd'.received_votes = nd.received_votes
               /\ nd'.evidence = nd.evidence
               /\ nd'.committed = nd.committed
               /\ nd'.id = nd.id]_vars
    /\ [][op' = "record_vote" =>
            \A proposal \in TestProposals, Q \in TestQuorums :
               Len(VotesGet(nd.received_votes, id(proposal))) >= Q =>
                  try_form_qc(nd', proposal, Q).ret = try_form_qc(nd, proposal, Q).ret]_vars

\* C18 witness: the last call returned a QC of three voters whose first vote
\* in order of arrival was B's, and a call for another proposal with the same
\* Q would return no QC.
C18_Witness ==
    /\ op = "try_form_qc"
    /\ ret # None
    /\ req[2] = 3
    /\ VotesGet(nd.received_votes, id(req[1]))[1].voter = "B"
    /\ ret[2][1] = "A"
    /\ ret[2][3] = "B"
    /\ \E proposal \in TestProposals : try_form_qc(nd, proposal, 3).ret = None

\* All QCs of the list that are for one proposal id name the same voters.
SameVotersPerProposal(formed) ==
    \A j, k \in 1..Len(formed) :
       id(formed[j][1]) = id(formed[k][1]) => formed[j][2] = formed[k][2]

\* C19: after every broadcast of a vote and at every phase of a run, any two
\* nodes hold the same vote lists (same proposal ids, same votes, same order)
\* and the same evidence set, and the QCs that the nodes returned for one
\* proposal, in the attack round and in the safe round, name the same voters.
C19_ReplicaConsistency ==
    /\ \A n1, n2 \in DOMAIN nodes :
          /\ nodes[n1].received_votes = nodes[n2].received_votes
          /\ nodes[n1].evidence = nodes[n2].evidence
    /\ SameVotersPerProposal(qcs)
    /\ SameVotersPerProposal(qcs_z)

\* C19 witness: a run of 7 validators with f = 2 has ended; no QC formed in
\* the attack round, every node returned a QC for Z with the same five voters,
\* and every node holds 3 votes for X, 4 for Y and 7 for Z.
C19_Witness ==
    /\ RunEnded
    /\ N = 7
    /\ F = 2
    /\ qcs = <<>>
    /\ Len(qcs_z) = 7
    /\ \A k \in 1..7 : Len(qcs_z[k][2]) = 5
    /\ \A nid \in DOMAIN nodes :
          /\ Len(VotesGet(nodes[nid].received_votes, id(propA))) = 3
          /\ Len(VotesGet(nodes[nid].received_votes, id(propB))) = 4
          /\ Len(VotesGet(nodes[nid].received_votes, id(safe_prop))) = 7

\* C20: in every state of a run, whatever N, F, leader, attack type and
\* Auto-play setting were selected, no node's committed list holds X or Y,
\* of any two nodes' committed lists one is a prefix of the other, and when
\* the run is over (at the end of the script, or stopped by an exception)
\* all nodes' committed lists are equal.
C20_Agreement ==
    /\ \A nid \in DOMAIN nodes :
          /\ "X" \notin Range(nodes[nid].committed)
          /\ "Y" \notin Range(nodes[nid].committed)
    /\ \A n1, n2 \in DOMAIN nodes :
          \/ IsPrefix(nodes[n1].committed, nodes[n2].committed)
          \/ IsPrefix(nodes[n2].committed, nodes[n1].committed)
    /\ pc \in {"finish", "done", "raised"} =>
          \A n1, n2 \in DOMAIN nodes : nodes[n1].committed = nodes[n2].committed

\* C20 witness: an equivocation run of 6 validators with f = 1 has ended; in
\* the faulty view a QC for X and a QC for Y formed on every node, and every
\* node's committed list is the single block Z.
C20_Witness ==
    /\ RunEnded
    /\ N = 6
    /\ F = 1
    /\ Len(qcs) = 12
    /\ \E k \in 1..12 : qcs[k][1].block_id = "X"
    /\ \E k \in 1..12 : qcs[k][1].block_id = "Y"
    /\ \A nid \in DOMAIN nodes : nodes[nid].committed = <<"Z">>
====
